---- MODULE Spec2Model ----
(***************************************************************************)
(* Date assignment and repair engine of msjournal_reader.date:            *)
(* parsers.parse_dow_month_day_year, repair.candidate_to_date,            *)
(* repair._fix_date_by_dow, repair.repair_with_context and the two passes *)
(* of assign.assign_dates, as a state machine over one call.              *)
(*                                                                         *)
(* Conventions.  A date is its proleptic Gregorian ordinal                 *)
(* (date.toordinal(): 0001-01-01 is 1, 9999-12-31 is MAXORDINAL); None is  *)
(* NoDate = 0 and a raised exception is Raised = -1.  A token is a         *)
(* sequence of one-character strings.  A confidence is an integer number   *)
(* of twentieths (ConfScale): 1.0 is 20, 0.3 is 6, 0.2 is 4; repair scores *)
(* are integer numbers of halves, so 1.0 - score/10.0 is 20 - score2.      *)
(* pages is the sequence of the pages' texts.  pass1 (the assignments as   *)
(* the first pass left them), repairs (what the repair search did for      *)
(* each page) and prevs (the prev_d each page was checked against) record  *)
(* history and are read by no action.  call and first_out serve the        *)
(* specification of two successive calls; arg and res hold the argument    *)
(* and the result where a single function is applied.                      *)
(***************************************************************************)
EXTENDS Integers, Sequences, FiniteSets, TLC

VARIABLES pages, policy, pc, idx, assigns, prev_d, known, kpos, pass1, repairs, prevs, call, first_out, arg, res

vars == <<pages, policy, pc, idx, assigns, prev_d, known, kpos, pass1, repairs, prevs, call, first_out, arg, res>>

NoDate == 0

Raised == -1

ConfScale == 20

(***************************************************************************)
(* Characters and tokens                                                   *)
(***************************************************************************)
UpperChars == <<"A", "B", "C", "D", "E", "F", "G", "H", "I", "J", "K", "L", "M", "N", "O", "P", "Q", "R", "S", "T", "U", "V", "W", "X", "Y", "Z">>

LowerChars == <<"a", "b", "c", "d", "e", "f", "g", "h", "i", "j", "k", "l", "m", "n", "o", "p", "q", "r", "s", "t", "u", "v", "w", "x", "y", "z">>

DigitChars == <<"0", "1", "2", "3", "4", "5", "6", "7", "8", "9">>

UpperSet == {UpperChars[k] : k \in 1..Len(UpperChars)}

LowerSet == {LowerChars[k] : k \in 1..Len(LowerChars)}

DigitSet == {DigitChars[k] : k \in 1..Len(DigitChars)}

\* str.lower() on one character
LowerOf == [c \in UpperSet |-> LowerChars[CHOOSE k \in 1..Len(UpperChars) : UpperChars[k] = c]]

Lower(c) == IF c \in UpperSet THEN LowerOf[c] ELSE c

DigitValueOf == [c \in DigitSet |-> (CHOOSE k \in 1..Len(DigitChars) : DigitChars[k] = c) - 1]

LowerTok(tok) == [k \in 1..Len(tok) |-> Lower(tok[k])]

IsSpace(c) == c = " "

RECURSIVE LStrip(_)
LStrip(tok) == IF tok # <<>> /\ IsSpace(Head(tok)) THEN LStrip(Tail(tok)) ELSE tok

RECURSIVE RStrip(_)
RStrip(tok) == IF tok # <<>> /\ IsSpace(tok[Len(tok)]) THEN RStrip(SubSeq(tok, 1, Len(tok) - 1)) ELSE tok

Strip(tok) == RStrip(LStrip(tok))

StartsWith(name, pref) == Len(pref) <= Len(name) /\ SubSeq(name, 1, Len(pref)) = pref

\* int(tok) for the tokens the header pattern can capture (\d{1,2}, \d{4}):
\* ok is FALSE where int() raises ValueError.
RECURSIVE DigitsValue(_)
DigitsValue(tok) == IF tok = <<>> THEN 0 ELSE 10 * DigitsValue(SubSeq(tok, 1, Len(tok) - 1)) + DigitValueOf[tok[Len(tok)]]

IntOfToken(tok) ==
    LET t == Strip(tok)
    IN IF t # <<>> /\ \A k \in 1..Len(t) : t[k] \in DigitSet
       THEN [ok |-> TRUE, val |-> DigitsValue(t)]
       ELSE [ok |-> FALSE, val |-> 0]

\* str(a).endswith(str(b)) for non-negative integers a and b
RECURSIVE Pow10Above(_)
Pow10Above(b) == IF b < 10 THEN 10 ELSE 10 * Pow10Above(b \div 10)

DecimalEndsWith(a, b) == (a % Pow10Above(b)) = b

MONTHS == <<
    <<"j", "a", "n", "u", "a", "r", "y">>,
    <<"f", "e", "b", "r", "u", "a", "r", "y">>,
    <<"m", "a", "r", "c", "h">>,
    <<"a", "p", "r", "i", "l">>,
    <<"m", "a", "y">>,
    <<"j", "u", "n", "e">>,
    <<"j", "u", "l", "y">>,
    <<"a", "u", "g", "u", "s", "t">>,
    <<"s", "e", "p", "t", "e", "m", "b", "e", "r">>,
    <<"o", "c", "t", "o", "b", "e", "r">>,
    <<"n", "o", "v", "e", "m", "b", "e", "r">>,
    <<"d", "e", "c", "e", "m", "b", "e", "r">> >>

DOW_NAMES == <<
    <<"m", "o", "n", "d", "a", "y">>,
    <<"t", "u", "e", "s", "d", "a", "y">>,
    <<"w", "e", "d", "n", "e", "s", "d", "a", "y">>,
    <<"t", "h", "u", "r", "s", "d", "a", "y">>,
    <<"f", "r", "i", "d", "a", "y">>,
    <<"s", "a", "t", "u", "r", "d", "a", "y">>,
    <<"s", "u", "n", "d", "a", "y">> >>

(***************************************************************************)
(* datetime.date: the proleptic Gregorian calendar behind date(y, m, d),   *)
(* toordinal(), fromordinal(), weekday(), .year, .month, .day              *)
(***************************************************************************)
MINYEAR == 1

MAXYEAR == 9999

MAXORDINAL == 3652059

DAYS_IN_MONTH == <<31, 28, 31, 30, 31, 30, 31, 31, 30, 31, 30, 31>>

DAYS_BEFORE_MONTH == <<0, 31, 59, 90, 120, 151, 181, 212, 243, 273, 304, 334>>

IsLeap(y) == y % 4 = 0 /\ (y % 100 # 0 \/ y % 400 = 0)

DaysInMonth(y, m) == IF m = 2 /\ IsLeap(y) THEN 29 ELSE DAYS_IN_MONTH[m]

DaysBeforeYear(y) == LET p == y - 1 IN p * 365 + (p \div 4) - (p \div 100) + (p \div 400)

DaysBeforeMonth(y, m) == DAYS_BEFORE_MONTH[m] + (IF m > 2 /\ IsLeap(y) THEN 1 ELSE 0)

\* faulty variant: a day outside the month is clamped to the month
MakeDateClamped(y, m, d) ==
    IF y < MINYEAR \/ y > MAXYEAR \/ m < 1 \/ m > 12 THEN NoDate
    ELSE DaysBeforeYear(y) + DaysBeforeMonth(y, m) +
            (IF d < 1 THEN 1 ELSE IF d > DaysInMonth(y, m) THEN DaysInMonth(y, m) ELSE d)

\* date(y, m, d): the ordinal of the date, or NoDate where the constructor
\* raises ValueError (the callers catch it and return None).
MakeDate(y, m, d) ==
    IF y < MINYEAR \/ y > MAXYEAR \/ m < 1 \/ m > 12 THEN NoDate
    ELSE IF d < 1 \/ d > DaysInMonth(y, m) THEN NoDate
    ELSE DaysBeforeYear(y) + DaysBeforeMonth(y, m) + d

\* (year, month, day) of an ordinal in 1..MAXORDINAL
OrdToYMD(o) ==
    LET n0   == o - 1
        n400 == n0 \div 146097
        r400 == n0 % 146097
        n100 == r400 \div 36524
        r100 == r400 % 36524
        n4   == r100 \div 1461
        r4   == r100 % 1461
        n1   == r4 \div 365
        n    == r4 % 365
        y    == n400 * 400 + 1 + n100 * 100 + n4 * 4 + n1
    IN IF n1 = 4 \/ n100 = 4 THEN [year |-> y - 1, month |-> 12, day |-> 31]
       ELSE LET leap == n1 = 3 /\ (n4 # 24 \/ n100 = 3)
                m0   == (n + 50) \div 32
                pre0 == DAYS_BEFORE_MONTH[m0] + (IF m0 > 2 /\ leap THEN 1 ELSE 0)
                m    == IF pre0 > n THEN m0 - 1 ELSE m0
                pre  == IF pre0 > n
                        THEN pre0 - (DAYS_IN_MONTH[m0 - 1] + (IF m0 - 1 = 2 /\ leap THEN 1 ELSE 0))
                        ELSE pre0
            IN [year |-> y, month |-> m, day |-> n - pre + 1]

\* date.weekday(): Monday is 0
Weekday(o) == (o + 6) % 7

\* date.fromordinal(o): raises ValueError outside 1..MAXORDINAL
FromOrdinal(o) == IF o < 1 \/ o > MAXORDINAL THEN Raised ELSE o

(***************************************************************************)
(* repair.py                                                               *)
(***************************************************************************)
RECURSIVE KeepLetters(_)
KeepLetters(tok) ==
    IF tok = <<>> THEN <<>>
    ELSE IF Head(tok) \in LowerSet THEN <<Head(tok)>> \o KeepLetters(Tail(tok))
    ELSE KeepLetters(Tail(tok))

ReplaceBar(tok) == [k \in 1..Len(tok) |-> IF tok[k] = "|" THEN "l" ELSE tok[k]]

\* MONTHS.get(tok): 0 is None
MonthsGet(tok) == IF \E m \in 1..12 : MONTHS[m] = tok THEN CHOOSE m \in 1..12 : MONTHS[m] = tok ELSE 0

\* the first month, in table order, whose name starts with pref; 0 if none
FirstMonthWithPrefix(pref) ==
    IF \E m \in 1..12 : StartsWith(MONTHS[m], pref)
    THEN CHOOSE m \in 1..12 : StartsWith(MONTHS[m], pref) /\ \A j \in 1..(m - 1) : ~StartsWith(MONTHS[j], pref)
    ELSE 0

\* faulty variant: the prefix is the first two letters
month_token_two_letter_prefix(tok) ==
    LET t0 == LowerTok(Strip(tok))
    IN IF t0 = <<>> THEN 0
       ELSE LET t == KeepLetters(ReplaceBar(t0))
            IN IF Len(t) >= 3 /\ FirstMonthWithPrefix(SubSeq(t, 1, 2)) # 0
               THEN FirstMonthWithPrefix(SubSeq(t, 1, 2))
               ELSE MonthsGet(t)

\* _month_token_to_int: 0 is None
month_token_to_int(tok) ==
    LET t0 == LowerTok(Strip(tok))
    IN IF t0 = <<>> THEN 0
       ELSE LET t == KeepLetters(ReplaceBar(t0))
            IN IF Len(t) >= 3 /\ FirstMonthWithPrefix(SubSeq(t, 1, 3)) # 0
               THEN FirstMonthWithPrefix(SubSeq(t, 1, 3))
               ELSE MonthsGet(t)

\* _dow_to_wanted: 0..6, or -1 for None
dow_to_wanted(dow) ==
    LET t == LowerTok(Strip(dow))
    IN IF \E k \in 1..7 : DOW_NAMES[k] = t THEN (CHOOSE k \in 1..7 : DOW_NAMES[k] = t) - 1 ELSE -1

MaxDeltaDays == 3

\* the offsets of _fix_date_by_dow's loop, in iteration order
FixDeltas == [k \in 1..(2 * MaxDeltaDays) |-> IF k <= MaxDeltaDays THEN k - MaxDeltaDays - 1 ELSE k - MaxDeltaDays]

Abs(x) == IF x < 0 THEN -x ELSE x

\* candidates.sort(key=lambda x: (abs(x[0]), x[0] > 0)): a before b
FixKeyLess(a, b) == Abs(a) < Abs(b) \/ (Abs(a) = Abs(b) /\ a <= 0 /\ b > 0)

\* _fix_date_by_dow(d, dow): a date, or Raised when a fromordinal() of the
\* loop leaves the calendar (the loop has no break and no except).
fix_date_by_dow(d, dow) ==
    LET want == dow_to_wanted(dow)
    IN IF want = -1 \/ Weekday(d) = want THEN d
       ELSE IF \E k \in 1..Len(FixDeltas) : FromOrdinal(d + FixDeltas[k]) = Raised THEN Raised
       ELSE LET cands == {dl \in {FixDeltas[k] : k \in 1..Len(FixDeltas)} : Weekday(d + dl) = want}
            IN IF cands = {} THEN d
               ELSE d + (CHOOSE dl \in cands : \A o \in cands \ {dl} : FixKeyLess(dl, o))

\* candidate_to_date(c): a date, NoDate for None, or Raised
candidate_to_date(c) ==
    LET y  == IntOfToken(c.year_token)
        da == IntOfToken(c.day_token)
    IN IF ~y.ok \/ ~da.ok THEN NoDate
       ELSE LET mo == month_token_to_int(c.month_token)
            IN IF mo = 0 THEN NoDate
               ELSE LET d == MakeDate(y.val, mo, da.val)
                    IN IF d = NoDate THEN NoDate ELSE fix_date_by_dow(d, c.dow)

NoNote == ""

\* DateAssignment(d=None, method="none", confidence=0.0)
NoneAssignment == [d |-> NoDate, method |-> "none", confidence |-> 0, note |-> NoNote]

\* DateAssignment(d=d, method="parsed", confidence=1.0)
ParsedAssignment(d) == [d |-> d, method |-> "parsed", confidence |-> ConfScale, note |-> NoNote]

Max(a, b) == IF a >= b THEN a ELSE b

Min(a, b) == IF a <= b THEN a ELSE b

RepairCutoffDays == 7

\* faulty variant: the best date is emitted however far it lies from target
BeyondCutoffNever(d, target) == FALSE

\* "if abs((d - target).days) > 7"
BeyondCutoff(d, target) == Abs(d - target) > RepairCutoffDays

\* faulty variant: the 0.2 floor is missing
RepairConfidenceNoFloor(score2) == ConfScale - score2

\* faulty variant: "1.0 - score / 20.0"
RepairConfidenceHalfSlope(score2) == Max(4, ConfScale - (score2 \div 2))

\* confidence=max(0.2, 1.0 - (score / 10.0)), score2 being twice the score
RepairConfidence(score2) == Max(4, ConfScale - score2)

\* faulty variant: a day that differs always costs 2.0, the digit-drop
\* resemblance is not looked at
RepairScore2NoResemblance(delta, cand, parsed_month, ocr_day) ==
    LET ymd == OrdToYMD(cand)
    IN 2 * Abs(delta)
       + (IF parsed_month # 0 /\ ymd.month # parsed_month THEN 6 ELSE 0)
       + (IF ymd.day # ocr_day THEN 4 ELSE 0)

\* the score of one window date, doubled: abs(delta), +3.0 for a month that
\* differs from the parsed month, +0.5 / +2.0 for a day that differs
RepairScore2(delta, cand, parsed_month, ocr_day) ==
    LET ymd == OrdToYMD(cand)
    IN 2 * Abs(delta)
       + (IF parsed_month # 0 /\ ymd.month # parsed_month THEN 6 ELSE 0)
       + (IF ymd.day # ocr_day THEN (IF DecimalEndsWith(ymd.day, ocr_day) THEN 1 ELSE 4) ELSE 0)

\* faulty variant: "score <= best[0]", the last date found wins a tie
RepairBetterOrEqual(score2, best) == ~best.some \/ score2 <= best.score2

\* "if best is None or score < best[0]"
RepairBetter(score2, best) == ~best.some \/ score2 < best.score2

\* the loop of repair_with_context from offset delta to +w, carrying best
RECURSIVE RepairScan(_, _, _, _, _, _, _, _)
RepairScan(delta, w, target, y, want, parsed_month, ocr_day, best) ==
    IF delta > w THEN best
    ELSE LET cand == target + delta
             \* "if cand.year != y: continue" and "if cand.weekday() != want:
             \* continue" both only skip the date; the cheaper test is evaluated first
             keep == Weekday(cand) = want /\ OrdToYMD(cand).year = y
             sc   == RepairScore2(delta, cand, parsed_month, ocr_day)
             nb   == IF keep /\ RepairBetter(sc, best)
                     THEN [some |-> TRUE, score2 |-> sc, d |-> cand]
                     ELSE best
         IN RepairScan(delta + 1, w, target, y, want, parsed_month, ocr_day, nb)

RepairNone == [raised |-> FALSE, some |-> FALSE, a |-> NoneAssignment]

RepairRaised == [raised |-> TRUE, some |-> FALSE, a |-> NoneAssignment]

\* repair_with_context(c, prev=prev, policy=pol): some = FALSE is None,
\* raised = TRUE is a ValueError out of fromordinal()
repair_with_context(c, prev, pol) ==
    LET want == dow_to_wanted(c.dow)
        y    == IntOfToken(c.year_token)
        da   == IntOfToken(c.day_token)
        w    == pol.max_window_days
    IN IF want = -1 THEN RepairNone
       ELSE IF ~y.ok \/ ~da.ok THEN RepairNone
       ELSE LET target == FromOrdinal(prev + 1)
            IN IF target = Raised THEN RepairRaised
               ELSE IF w >= 0 /\ (FromOrdinal(target - w) = Raised \/ FromOrdinal(target + w) = Raised)
               THEN RepairRaised
               ELSE LET best == RepairScan(-w, w, target, y.val, want,
                                           month_token_to_int(c.month_token), da.val,
                                           [some |-> FALSE, score2 |-> 0, d |-> NoDate])
                    IN IF ~best.some THEN RepairNone
                       ELSE IF BeyondCutoff(best.d, target) THEN RepairNone
                       ELSE [raised |-> FALSE, some |-> TRUE,
                             a |-> [d |-> best.d, method |-> "repaired",
                                    confidence |-> RepairConfidence(best.score2), note |-> NoNote]]

(***************************************************************************)
(* parsers.py.  A line of page text is "blank", free "text", or "tokens":  *)
(* the non-empty ones of a weekday, a month, a day and a year token, in    *)
(* that order, separated by blanks and optional commas.                    *)
(***************************************************************************)
AllIn(tok, chars) == \A k \in 1..Len(tok) : tok[k] \in chars

IsDowName(tok) == LET t == LowerTok(tok) IN \E k \in 1..7 : DOW_NAMES[k] = t

IsMonthWord(tok) == Len(tok) >= 3 /\ Len(tok) <= 12 /\ AllIn(LowerTok(tok), LowerSet)

IsDayDigits(tok) == Len(tok) >= 1 /\ Len(tok) <= 2 /\ AllIn(tok, DigitSet)

IsYearDigits(tok) == Len(tok) = 4 /\ AllIn(tok, DigitSet)

\* DATE_LINE_RE.match on the line made of tokens dow, month, day, year
DateLineMatch(dow, month, day, year) ==
    IsDowName(dow) /\ IsMonthWord(month) /\ IsDayDigits(day) /\ IsYearDigits(year)

\* DATE_LINE_RE.match(ln)
DATE_LINE_RE(ln) == ln.kind = "tokens" /\ DateLineMatch(ln.dow, ln.month, ln.day, ln.year)

\* DOW_ONLY_RE.fullmatch(ln)
DOW_ONLY_RE(ln) ==
    ln.kind = "tokens" /\ IsDowName(ln.dow) /\ ln.month = <<>> /\ ln.day = <<>> /\ ln.year = <<>>

\* DATE_LINE_RE.match(f"{first} {second}") for a weekday-only first line
StitchedMatch(first, second) ==
    second.kind = "tokens" /\ second.dow = <<>>
    /\ DateLineMatch(first.dow, second.month, second.day, second.year)

NoCandidate == [some |-> FALSE, dow |-> <<>>, month_token |-> <<>>, day_token |-> <<>>, year_token |-> <<>>, source |-> <<>>]

Candidate(dow, month, day, year, src) ==
    [some |-> TRUE, dow |-> dow, month_token |-> month, day_token |-> day, year_token |-> year, source |-> src]

IsBlank(ln) == ln.kind = "blank"

NonBlank(ln) == ~IsBlank(ln)

\* "for ln in lines[:10]"
ScanLimit == 10

\* "p.text.splitlines()[:10]"
PageLineLimit == 10

\* parse_dow_month_day_year(lines)
parse_dow_month_day_year(lines) ==
    LET nb == SelectSeq(lines, NonBlank)
    IN IF nb = <<>> THEN NoCandidate
       ELSE IF Len(nb) >= 2 /\ DOW_ONLY_RE(nb[1]) /\ StitchedMatch(nb[1], nb[2])
       THEN Candidate(nb[1].dow, nb[2].month, nb[2].day, nb[2].year, <<1, 2>>)
       ELSE LET scan == 1..Min(ScanLimit, Len(nb))
            IN IF \E k \in scan : DATE_LINE_RE(nb[k])
               THEN LET k == CHOOSE j \in scan : DATE_LINE_RE(nb[j]) /\ \A i \in 1..(j - 1) : ~DATE_LINE_RE(nb[i])
                    IN Candidate(nb[k].dow, nb[k].month, nb[k].day, nb[k].year, <<k>>)
               ELSE NoCandidate

FirstLines(text) == SubSeq(text, 1, Min(PageLineLimit, Len(text)))

(***************************************************************************)
(* Inputs: page texts, page sequences and policies                         *)
(***************************************************************************)
BlankLine == [kind |-> "blank", dow |-> <<>>, month |-> <<>>, day |-> <<>>, year |-> <<>>]

TextLine == [kind |-> "text", dow |-> <<>>, month |-> <<>>, day |-> <<>>, year |-> <<>>]

TextPlain == <<TextLine, TextLine>>

TextJan1 == <<[kind |-> "tokens", dow |-> <<"W", "e", "d", "n", "e", "s", "d", "a", "y">>, month |-> <<"J", "a", "n", "u", "a", "r", "y">>, day |-> <<"1">>, year |-> <<"2", "0", "2", "5">>]>>

TextJan2 == <<BlankLine,
    [kind |-> "tokens", dow |-> <<"T", "h", "u", "r", "s", "d", "a", "y">>, month |-> <<"J", "a", "n">>, day |-> <<"2">>, year |-> <<"2", "0", "2", "5">>]>>

TextJan3 == <<[kind |-> "tokens", dow |-> <<"F", "R", "I", "D", "A", "Y">>, month |-> <<>>, day |-> <<>>, year |-> <<>>],
    [kind |-> "tokens", dow |-> <<>>, month |-> <<"J", "A", "N", "U", "A", "R", "Y">>, day |-> <<"3">>, year |-> <<"2", "0", "2", "5">>],
    TextLine>>

TextJun20 == <<[kind |-> "tokens", dow |-> <<"F", "r", "i", "d", "a", "y">>, month |-> <<"J", "u", "n", "e">>, day |-> <<"2", "0">>, year |-> <<"2", "0", "2", "4">>]>>

TextFeb30 == <<[kind |-> "tokens", dow |-> <<"M", "o", "n", "d", "a", "y">>, month |-> <<"F", "e", "b", "r", "u", "a", "r", "y">>, day |-> <<"3", "0">>, year |-> <<"2", "0", "2", "5">>]>>

TextYear1 == <<[kind |-> "tokens", dow |-> <<"S", "u", "n", "d", "a", "y">>, month |-> <<"J", "a", "n", "u", "a", "r", "y">>, day |-> <<"1">>, year |-> <<"0", "0", "0", "1">>]>>

TextYear9999 == <<[kind |-> "tokens", dow |-> <<"F", "r", "i", "d", "a", "y">>, month |-> <<"D", "e", "c", "e", "m", "b", "e", "r">>, day |-> <<"3", "1">>, year |-> <<"9", "9", "9", "9">>]>>

TextDay0 == <<[kind |-> "tokens", dow |-> <<"M", "o", "n", "d", "a", "y">>, month |-> <<"J", "a", "n", "u", "a", "r", "y">>, day |-> <<"0">>, year |-> <<"2", "0", "2", "5">>]>>

TextYear0 == <<[kind |-> "tokens", dow |-> <<"M", "o", "n", "d", "a", "y">>, month |-> <<"J", "a", "n", "u", "a", "r", "y">>, day |-> <<"1">>, year |-> <<"0", "0", "0", "0">>]>>

TextFeb29 == <<[kind |-> "tokens", dow |-> <<"S", "a", "t", "u", "r", "d", "a", "y">>, month |-> <<"F", "e", "b", "r", "u", "a", "r", "y">>, day |-> <<"2", "9">>, year |-> <<"2", "0", "2", "5">>]>>

TextJan4 == <<[kind |-> "tokens", dow |-> <<"S", "a", "t", "u", "r", "d", "a", "y">>, month |-> <<"J", "a", "n", "u", "a", "r", "y">>, day |-> <<"4">>, year |-> <<"2", "0", "2", "5">>]>>

TextJan5 == <<[kind |-> "tokens", dow |-> <<"S", "u", "n", "d", "a", "y">>, month |-> <<"J", "a", "n", "u", "a", "r", "y">>, day |-> <<"5">>, year |-> <<"2", "0", "2", "5">>]>>

PageTexts == {TextPlain, TextJan1, TextJan2, TextJan3, TextJun20, TextFeb30, TextYear1, TextYear9999}

\* headers that name no calendar date, between two valid ones
InvalidPageTexts == {TextFeb30, TextDay0, TextYear0, TextFeb29} \cup {TextJan1, TextJan3}

\* headers 0, 3 and 4 days after January 1, 2025, and one day before January 2
TriggerTexts == {TextPlain, TextJan1, TextJan2, TextJan4, TextJan5}

BlankLines(k) == [j \in 1..k |-> BlankLine]

TextLines(k) == [j \in 1..k |-> TextLine]

\* the header of January 1, 2025 behind 0, 9 or 10 blank lines, behind 9 or
\* 10 lines of text, and behind 5 blank lines and 5 lines of text; two
\* headers on one page; the stitched header; no header
WindowTexts ==
    {BlankLines(k) \o TextJan1 : k \in {0, PageLineLimit - 1, PageLineLimit}}
        \cup {TextLines(k) \o TextJan1 : k \in {PageLineLimit - 1, PageLineLimit}}
        \cup {BlankLines(5) \o TextLines(5) \o TextJan1, TextJan1 \o TextJan2, TextJan3, TextPlain}

AllTexts == PageTexts \cup InvalidPageTexts \cup TriggerTexts \cup WindowTexts

MaxPages == 3

\* policy.max_window_days: the default, and a window too short to hold every weekday
DefaultWindowDays == 14

ShortWindowDays == 2

DefaultMinHits == 3

DefaultScanPages == 20

\* DatePolicy values; the window only matters where repair is allowed
Policies ==
    {pol \in [allow_repair : BOOLEAN, allow_infer_continuations : BOOLEAN, max_window_days : {DefaultWindowDays, ShortWindowDays},
              auto_min_hits : {DefaultMinHits}, auto_scan_pages : {DefaultScanPages}] :
        pol.allow_repair \/ pol.max_window_days = DefaultWindowDays}

PageSeqs == UNION {[1..n -> PageTexts] : n \in 0..MaxPages}

(***************************************************************************)
(* assign.py: assign_dates                                                 *)
(***************************************************************************)
\* "if delta < 0 or delta > 3"
MaxPlausibleDelta == 3

\* faulty variant: "if delta <= 0 or delta > 3", a repeated date is repaired
RepairTriggeredSameDay(d, prev, pol) ==
    d # NoDate /\ prev # NoDate /\ pol.allow_repair /\ (d - prev <= 0 \/ d - prev > MaxPlausibleDelta)

\* "if d and prev_d and policy.allow_repair" and the delta test inside it
RepairTriggered(d, prev, pol) ==
    d # NoDate /\ prev # NoDate /\ pol.allow_repair /\ (d - prev < 0 \/ d - prev > MaxPlausibleDelta)

Step(raised, a, prev, repair) == [raised |-> raised, a |-> a, prev |-> prev, repair |-> repair]

\* faulty variant: "parsed" is appended without the "if d" test
DirectAssignmentUnchecked(d, prev, repair) == Step(FALSE, ParsedAssignment(d), d, repair)

\* faulty variant: a page without a date resets prev_d
DirectAssignmentResetsPrev(d, prev, repair) ==
    IF d # NoDate THEN Step(FALSE, ParsedAssignment(d), d, repair)
    ELSE Step(FALSE, NoneAssignment, NoDate, repair)

\* "if d: parsed ... else: none" at the end of the loop body
DirectAssignment(d, prev, repair) ==
    IF d # NoDate THEN Step(FALSE, ParsedAssignment(d), d, repair)
    ELSE Step(FALSE, NoneAssignment, prev, repair)

\* faulty variant: a search that returns None leaves the page undated
AfterRepairDeclinesToNone(rep, d, prev) ==
    IF rep.raised THEN Step(TRUE, NoneAssignment, prev, "raised")
    ELSE IF rep.some /\ rep.a.d # NoDate THEN Step(FALSE, rep.a, rep.a.d, "committed")
    ELSE Step(FALSE, NoneAssignment, prev, "declined")

\* "rep = repair_with_context(...); if rep and rep.d: ... continue", and the
\* fall-through to the direct assignment when the search returns None
AfterRepair(rep, d, prev) ==
    IF rep.raised THEN Step(TRUE, NoneAssignment, prev, "raised")
    ELSE IF rep.some /\ rep.a.d # NoDate THEN Step(FALSE, rep.a, rep.a.d, "committed")
    ELSE DirectAssignment(d, prev, "declined")

\* one iteration of the first loop of assign_dates on a page text: the
\* assignment appended, the new prev_d and what the repair search did
\* ("not-run", "committed", "declined"), or raised
Pass1Body(text, prev, pol) ==
    LET cand == parse_dow_month_day_year(FirstLines(text))
    IN IF ~cand.some THEN Step(FALSE, NoneAssignment, prev, "not-run")
       ELSE LET d == candidate_to_date(cand)
            IN IF d = Raised THEN Step(TRUE, NoneAssignment, prev, "raised")
               ELSE IF RepairTriggered(d, prev, pol)
               THEN AfterRepair(repair_with_context(cand, prev, pol), d, prev)
               ELSE DirectAssignment(d, prev, "not-run")

\* "known = [(i, a.d) for i, a in enumerate(assigns) if a.d is not None]"
RECURSIVE KnownFrom(_, _)
KnownFrom(as, i) ==
    IF i > Len(as) THEN <<>>
    ELSE IF as[i].d # NoDate THEN <<[i |-> i, d |-> as[i].d]>> \o KnownFrom(as, i + 1)
    ELSE KnownFrom(as, i + 1)

Known(as) == KnownFrom(as, 1)

\* faulty variant: a two-day gap is filled with d0, the "+ 1" is missing
GapFillDateNoStep(d0, d1) ==
    IF d1 - d0 = 1 THEN d0
    ELSE IF d1 - d0 = 2 THEN d0
    ELSE NoDate

\* faulty variant: "elif gap_days >= 2", every longer gap is filled too
GapFillDateAnyGap(d0, d1) ==
    IF d1 - d0 = 1 THEN d0
    ELSE IF d1 - d0 >= 2 THEN FromOrdinal(d0 + 1)
    ELSE NoDate

\* the fill date of a gap between known dates d0 and d1; NoDate is "no fill"
GapFillDate(d0, d1) ==
    IF d1 - d0 = 1 THEN d0
    ELSE IF d1 - d0 = 2 THEN FromOrdinal(d0 + 1)
    ELSE NoDate

NeighborGap(fill) == [d |-> fill, method |-> "inferred", confidence |-> 6, note |-> "neighbor-gap"]

Trailing(last_d) == [d |-> last_d, method |-> "inferred", confidence |-> 4, note |-> "trailing"]

\* "if assigns[gi].d is None: assigns[gi] = ..." for gi in lo..hi
FillRange(as, lo, hi, new) ==
    [gi \in 1..Len(as) |-> IF gi >= lo /\ gi <= hi /\ as[gi].d = NoDate THEN new ELSE as[gi]]

\* one iteration of the loop over consecutive known pairs
GapBody(as, k0, k1) ==
    IF k1.i <= k0.i + 1 THEN as
    ELSE LET fill == GapFillDate(k0.d, k1.d)
         IN IF fill = NoDate THEN as ELSE FillRange(as, k0.i + 1, k1.i - 1, NeighborGap(fill))

\* faulty variant: only the first page after the last known date is filled
TrailingBodyFirstOnly(as, kn) ==
    IF kn = <<>> THEN as
    ELSE FillRange(as, kn[Len(kn)].i + 1, kn[Len(kn)].i + 1, Trailing(kn[Len(kn)].d))

\* faulty variant: "for gi in range(last_i, len(assigns))" without the None test
TrailingBodyOverwrites(as, kn) ==
    IF kn = <<>> THEN as
    ELSE [gi \in 1..Len(as) |-> IF gi >= kn[Len(kn)].i THEN Trailing(kn[Len(kn)].d) ELSE as[gi]]

\* faulty variant: the pages before the first known date are filled too
TrailingBodyAlsoLeading(as, kn) ==
    IF kn = <<>> THEN as
    ELSE FillRange(FillRange(as, kn[Len(kn)].i + 1, Len(as), Trailing(kn[Len(kn)].d)),
                   1, kn[1].i - 1, Trailing(kn[1].d))

\* the trailing loop
TrailingBody(as, kn) ==
    IF kn = <<>> THEN as
    ELSE FillRange(as, kn[Len(kn)].i + 1, Len(as), Trailing(kn[Len(kn)].d))

\* the locals of a call of assign_dates as it starts: "assigns = []",
\* "prev_d = None"
FreshLocals ==
    /\ idx = 1
    /\ assigns = <<>>
    /\ prev_d = NoDate
    /\ known = <<>>
    /\ kpos = 1
    /\ pass1 = <<>>
    /\ repairs = <<>>
    /\ prevs = <<>>

\* nothing has been called before, no single function is applied
NoHistory ==
    /\ call = 1
    /\ first_out = <<>>
    /\ arg = <<>>
    /\ res = <<>>

Init ==
    /\ pages \in PageSeqs
    /\ policy \in Policies
    /\ pc = "pass1"
    /\ FreshLocals
    /\ NoHistory

\* faulty variant: a page without a candidate is skipped, nothing is appended for it
Pass1StepDropsUndated ==
    /\ pc = "pass1"
    /\ idx <= Len(pages)
    /\ LET out == Pass1Body(pages[idx], prev_d, policy)
       IN IF out.raised
          THEN /\ pc' = "raised"
               /\ UNCHANGED <<idx, assigns, prev_d, repairs, prevs>>
          ELSE /\ assigns' = IF parse_dow_month_day_year(FirstLines(pages[idx])).some
                             THEN Append(assigns, out.a) ELSE assigns
               /\ repairs' = Append(repairs, out.repair)
               /\ prevs' = Append(prevs, prev_d)
               /\ prev_d' = out.prev
               /\ idx' = idx + 1
               /\ pc' = pc
    /\ UNCHANGED <<pages, policy, known, kpos, pass1, call, first_out, arg, res>>

\* "for p in pages": one page of the first pass
Pass1Step ==
    /\ pc = "pass1"
    /\ idx <= Len(pages)
    /\ LET out == Pass1Body(pages[idx], prev_d, policy)
       IN IF out.raised
          THEN /\ pc' = "raised"
               /\ UNCHANGED <<idx, assigns, prev_d, repairs, prevs>>
          ELSE /\ assigns' = Append(assigns, out.a)
               /\ repairs' = Append(repairs, out.repair)
               /\ prevs' = Append(prevs, prev_d)
               /\ prev_d' = out.prev
               /\ idx' = idx + 1
               /\ pc' = pc
    /\ UNCHANGED <<pages, policy, known, kpos, pass1, call, first_out, arg, res>>

\* faulty variant: the second pass runs whatever allow_infer_continuations says
EndPass1AlwaysInfers ==
    /\ pc = "pass1"
    /\ idx > Len(pages)
    /\ pass1' = assigns
    /\ pc' = "gaps"
    /\ known' = Known(assigns)
    /\ kpos' = 1
    /\ UNCHANGED <<pages, policy, idx, assigns, prev_d, repairs, prevs, call, first_out, arg, res>>

\* the end of the first pass: "if not policy.allow_infer_continuations:
\* return assigns", else the known list is built
EndPass1 ==
    /\ pc = "pass1"
    /\ idx > Len(pages)
    /\ pass1' = assigns
    /\ IF ~policy.allow_infer_continuations
       THEN /\ pc' = "done"
            /\ UNCHANGED <<known, kpos>>
       ELSE /\ pc' = "gaps"
            /\ known' = Known(assigns)
            /\ kpos' = 1
    /\ UNCHANGED <<pages, policy, idx, assigns, prev_d, repairs, prevs, call, first_out, arg, res>>

\* "for k in range(len(known) - 1)": one pair of consecutive known dates
GapStep ==
    /\ pc = "gaps"
    /\ kpos <= Len(known) - 1
    /\ assigns' = GapBody(assigns, known[kpos], known[kpos + 1])
    /\ kpos' = kpos + 1
    /\ UNCHANGED <<pages, policy, pc, idx, prev_d, known, pass1, repairs, prevs, call, first_out, arg, res>>

\* "if known: ..." the trailing pages, then "return assigns"
TrailingStep ==
    /\ pc = "gaps"
    /\ kpos > Len(known) - 1
    /\ assigns' = TrailingBody(assigns, known)
    /\ pc' = "done"
    /\ UNCHANGED <<pages, policy, idx, prev_d, known, kpos, pass1, repairs, prevs, call, first_out, arg, res>>

Next == Pass1Step \/ EndPass1 \/ GapStep \/ TrailingStep

Spec == Init /\ [][Next]_vars

\* assign_dates on pages whose headers name impossible dates
InitInvalid ==
    /\ pages \in UNION {[1..n -> InvalidPageTexts] : n \in 0..MaxPages}
    /\ policy \in Policies
    /\ pc = "pass1"
    /\ FreshLocals
    /\ NoHistory

SpecInvalid == InitInvalid /\ [][Next]_vars

\* assign_dates on pages whose header lies at different depths of the text
InitWindow ==
    /\ pages \in UNION {[1..n -> WindowTexts] : n \in 0..MaxPages}
    /\ policy \in Policies
    /\ pc = "pass1"
    /\ FreshLocals
    /\ NoHistory

SpecWindow == InitWindow /\ [][Next]_vars

\* assign_dates on pages whose dates lie 0 to 4 days apart
InitTrigger ==
    /\ pages \in UNION {[1..n -> TriggerTexts] : n \in 0..MaxPages}
    /\ policy \in Policies
    /\ pc = "pass1"
    /\ FreshLocals
    /\ NoHistory

SpecTrigger == InitTrigger /\ [][Next]_vars

\* faulty variant: prev_d outlives the call, as a module-level variable would
SecondCallKeepsPrev ==
    /\ pc = "done"
    /\ call = 1
    /\ first_out' = assigns
    /\ call' = 2
    /\ pc' = "pass1"
    /\ idx' = 1
    /\ assigns' = <<>>
    /\ known' = <<>>
    /\ kpos' = 1
    /\ pass1' = <<>>
    /\ repairs' = <<>>
    /\ prevs' = <<>>
    /\ UNCHANGED <<pages, policy, prev_d, arg, res>>

\* assign_dates is called again on the same pages and policy after it has
\* returned: the locals are built anew, the first output is kept aside
SecondCall ==
    /\ pc = "done"
    /\ call = 1
    /\ first_out' = assigns
    /\ call' = 2
    /\ pc' = "pass1"
    /\ idx' = 1
    /\ assigns' = <<>>
    /\ prev_d' = NoDate
    /\ known' = <<>>
    /\ kpos' = 1
    /\ pass1' = <<>>
    /\ repairs' = <<>>
    /\ prevs' = <<>>
    /\ UNCHANGED <<pages, policy, arg, res>>

NextTwice == Next \/ SecondCall

\* two successive calls of assign_dates on identical inputs
SpecTwice == Init /\ [][NextTwice]_vars

TypeOK ==
    /\ pc \in {"pass1", "gaps", "done", "raised"}
    /\ Len(assigns) <= Len(pages)
    /\ \A i \in 1..Len(assigns) : assigns[i].method \in {"parsed", "repaired", "inferred", "none"}

(***************************************************************************)
(* assign.py: auto_detect_date_mode                                        *)
(***************************************************************************)
\* the loop of auto_detect_date_mode from page i on with hits counted so
\* far: "true", "false", or "raised" when candidate_to_date raises
RECURSIVE AutoScan(_, _, _, _)
AutoScan(ps, i, hits, pol) ==
    IF i > Min(Len(ps), pol.auto_scan_pages) THEN "false"
    ELSE LET cand == parse_dow_month_day_year(FirstLines(ps[i]))
         IN IF ~cand.some THEN AutoScan(ps, i + 1, hits, pol)
            ELSE LET d     == candidate_to_date(cand)
                     hits1 == IF d # NoDate THEN hits + 1 ELSE hits
                 IN IF d = Raised THEN "raised"
                    ELSE IF hits1 >= pol.auto_min_hits THEN "true"
                    ELSE AutoScan(ps, i + 1, hits1, pol)

\* auto_detect_date_mode(pages, policy), for 0 <= auto_scan_pages
auto_detect_date_mode(ps, pol) == AutoScan(ps, 1, 0, pol)

(***************************************************************************)
(* corrections.py: apply_corrections.  Texts, patterns and replacements    *)
(* are sequences of characters; a pattern is a non-empty literal, a        *)
(* replacement has no backslash.                                           *)
(***************************************************************************)
\* \w
IsWordChar(c) == c \in LowerSet \cup UpperSet \cup DigitSet \cup {"_"}

WordAt(text, k) == k >= 1 /\ k <= Len(text) /\ IsWordChar(text[k])

\* \b between text[p - 1] and text[p]
Boundary(text, p) == WordAt(text, p - 1) # WordAt(text, p)

\* the literal patt matches at position p under re.IGNORECASE; bounded is
\* the pattern written between two \b
MatchesAt(patt, text, p, bounded) ==
    /\ p + Len(patt) - 1 <= Len(text)
    /\ \A k \in 1..Len(patt) : Lower(text[p + k - 1]) = Lower(patt[k])
    /\ bounded => (Boundary(text, p) /\ Boundary(text, p + Len(patt)))

\* re.sub from position p on: leftmost matches, not overlapping
RECURSIVE SubFrom(_, _, _, _, _)
SubFrom(patt, repl, text, p, bounded) ==
    IF p > Len(text) THEN <<>>
    ELSE IF MatchesAt(patt, text, p, bounded)
    THEN repl \o SubFrom(patt, repl, text, p + Len(patt), bounded)
    ELSE <<text[p]>> \o SubFrom(patt, repl, text, p + 1, bounded)

\* re.sub(patt, repl, text, flags=re.IGNORECASE)
re_sub(patt, repl, text, bounded) == SubFrom(patt, repl, text, 1, bounded)

\* (r"\btered\b", "tired"), (r"\bliet\b", "diet")
generic_regex == <<
    <<<<"t", "e", "r", "e", "d">>, <<"t", "i", "r", "e", "d">>>>,
    <<<<"l", "i", "e", "t">>, <<"d", "i", "e", "t">>>> >>

\* faulty variant: the generic patterns lack their word boundaries
GenericFixesInsideWords(text) ==
    re_sub(generic_regex[2][1], generic_regex[2][2],
           re_sub(generic_regex[1][1], generic_regex[1][2], text, FALSE), FALSE)

\* "for patt, repl in generic_regex: out = re.sub(...)"
GenericFixes(text) ==
    re_sub(generic_regex[2][1], generic_regex[2][2],
           re_sub(generic_regex[1][1], generic_regex[1][2], text, TRUE), TRUE)

\* faulty variant: the rules are applied last to first
RECURSIVE ListRulesReversed(_, _)
ListRulesReversed(items, out) ==
    IF items = <<>> THEN out
    ELSE LET rest == ListRulesReversed(Tail(items), out)
         IN IF Len(Head(items)) # 2 THEN rest
            ELSE re_sub(Head(items)[1], Head(items)[2], rest, FALSE)

\* the loop over a JSON list: items that are not pairs are skipped
RECURSIVE ListRules(_, _)
ListRules(items, out) ==
    IF items = <<>> THEN out
    ELSE IF Len(Head(items)) # 2 THEN ListRules(Tail(items), out)
    ELSE ListRules(Tail(items), re_sub(Head(items)[1], Head(items)[2], out, FALSE))

\* entry e put into a sequence sorted by key length, longest first, behind
\* the entries that are as long
RECURSIVE InsertByLen(_, _)
InsertByLen(e, sorted) ==
    IF sorted = <<>> THEN <<e>>
    ELSE IF Len(Head(sorted)[1]) >= Len(e[1]) THEN <<Head(sorted)>> \o InsertByLen(e, Tail(sorted))
    ELSE <<e>> \o sorted

\* sorted(obj.keys(), key=lambda s: len(str(s)), reverse=True), with the values
RECURSIVE SortByLenDesc(_)
SortByLenDesc(entries) ==
    IF entries = <<>> THEN <<>>
    ELSE InsertByLen(entries[Len(entries)], SortByLenDesc(SubSeq(entries, 1, Len(entries) - 1)))

\* the loop over a JSON dict: whole words, a key of blanks is skipped
RECURSIVE DictRules(_, _)
DictRules(entries, out) ==
    IF entries = <<>> THEN out
    ELSE IF Strip(Head(entries)[1]) = <<>> THEN DictRules(Tail(entries), out)
    ELSE DictRules(Tail(entries), re_sub(Strip(Head(entries)[1]), Head(entries)[2], out, TRUE))

\* apply_corrections(text, corrections_path); path.kind is "none" for None,
\* "missing" for a path that does not exist, else the type of the JSON
\* value in the file, path.obj its items in order
apply_corrections(text, path) ==
    LET out == GenericFixes(text)
    IN IF path.kind = "none" THEN out
       ELSE IF path.kind = "missing" THEN out
       ELSE IF path.kind = "list" THEN ListRules(path.obj, out)
       ELSE IF path.kind = "dict" THEN DictRules(SortByLenDesc(path.obj), out)
       ELSE out

(***************************************************************************)
(* Single functions applied to an argument: arg is the argument, res the   *)
(* result once pc is "returned"                                            *)
(***************************************************************************)
\* DatePolicy()
DefaultPolicy ==
    [allow_repair |-> TRUE, allow_infer_continuations |-> TRUE, max_window_days |-> DefaultWindowDays,
     auto_min_hits |-> DefaultMinHits, auto_scan_pages |-> DefaultScanPages]

engineVars == <<pages, policy, idx, assigns, prev_d, known, kpos, pass1, repairs, prevs, call, first_out>>

\* assign_dates is not running
IdleEngine ==
    /\ pages = <<>>
    /\ policy = DefaultPolicy
    /\ FreshLocals
    /\ call = 1
    /\ first_out = <<>>

\* dates given to the weekday reconciler: a week of January 2025 and the
\* first and last days of the calendar
FixInputs ==
    [d : {MakeDate(2025, 1, k) : k \in 6..12} \cup (1..4) \cup {MAXORDINAL - k : k \in 0..3},
     dow : {DOW_NAMES[k] : k \in 1..7} \cup {<<"M", "o", "n", "d", "a", "y">>, <<" ", "F", "R", "I", "D", "A", "Y", " ">>}]

InitFix ==
    /\ IdleEngine
    /\ pc = "call"
    /\ arg \in FixInputs
    /\ res = NoDate

\* _fix_date_by_dow(arg.d, arg.dow)
ApplyFix ==
    /\ pc = "call"
    /\ res' = fix_date_by_dow(arg.d, arg.dow)
    /\ pc' = "returned"
    /\ UNCHANGED <<engineVars, arg>>

NextFix == ApplyFix

SpecFix == InitFix /\ [][NextFix]_vars

MaxTokenLen == 3

\* characters of month tokens: letters of may, march, june, july, january,
\* the OCR bar, a digit and a space
TokenChars == {"J", "u", "l", "n", "a", "m", "y", "r", "|", "1", " "}

RECURSIVE TokensUpTo(_)
TokensUpTo(n) ==
    IF n = 0 THEN {<<>>}
    ELSE LET shorter == TokensUpTo(n - 1)
         IN shorter \cup {Append(t, c) : t \in {u \in shorter : Len(u) = n - 1}, c \in TokenChars}

NamedTokens ==
    {MONTHS[m] : m \in 1..12} \cup
    {<<"J", "u", "l", "z">>,
     <<"J", "a", "n">>,
     <<"z", "z", "z">>,
     <<"J", "u", "|", "y">>,
     <<"M", "A", "Y", "B", "E">>,
     <<" ", "J", "a", "n", " ">>,
     <<"j", ".", "u", ".", "l">>,
     <<"d", "e", "c", "e", "m", "b", "r", "e">>,
     <<"S", "e", "p", "t">>,
     <<"7">>}

MonthTokens == TokensUpTo(MaxTokenLen) \cup NamedTokens

InitMonth ==
    /\ IdleEngine
    /\ pc = "call"
    /\ arg \in MonthTokens
    /\ res = NoDate

\* _month_token_to_int(arg)
ApplyMonth ==
    /\ pc = "call"
    /\ res' = month_token_to_int(arg)
    /\ pc' = "returned"
    /\ UNCHANGED <<engineVars, arg>>

NextMonth == ApplyMonth

SpecMonth == InitMonth /\ [][NextMonth]_vars

\* a scan limit shorter than the documents
ShortScanPages == 2

\* policies of auto_detect_date_mode: every threshold up to the default
InitAuto ==
    /\ pages \in PageSeqs
    /\ policy \in {[DefaultPolicy EXCEPT !.auto_min_hits = h, !.auto_scan_pages = n] :
                       h \in 0..DefaultMinHits, n \in {ShortScanPages, DefaultScanPages}}
    /\ pc = "call"
    /\ FreshLocals
    /\ call = 1
    /\ first_out = <<>>
    /\ arg = <<>>
    /\ res = NoDate

\* auto_detect_date_mode(pages, policy)
ApplyAuto ==
    /\ pc = "call"
    /\ res' = auto_detect_date_mode(pages, policy)
    /\ pc' = "returned"
    /\ UNCHANGED <<engineVars, arg>>

NextAuto == ApplyAuto

SpecAuto == InitAuto /\ [][NextAuto]_vars

MaxRules == 2

CorrTexts ==
    {<<"a", "b", "c">>,
     <<"A", "B", "C">>,
     <<"x", "a", "b", "c">>,
     <<"h", "e", "l", "l", "o">>,
     <<"t", "e", "r", "e", "d">>,
     <<"T", "e", "r", "e", "d", " ", "l", "i", "e", "t">>,
     <<"t", "e", "r", "e", "d", "s">>,
     <<"a", " ", "c", "a", "t">>,
     <<>>,
     <<"x">>}

\* JSON lists: the items are pairs, and one item that is not a pair
RuleLists ==
    LET items == {<<<<"a", "b", "c">>, <<"x">>>>,
                  <<<<"x">>, <<"y">>>>,
                  <<<<"b">>, <<"b", "b">>>>,
                  <<<<"a", "b", "c">>>>}
    IN UNION {[1..n -> items] : n \in 0..MaxRules}

\* JSON dicts: the keys of a dict are distinct
DictObjects ==
    LET entries == {<<<<"c", "a", "t">>, <<"d", "o", "g">>>>,
                    <<<<"a", " ", "c", "a", "t">>, <<"p", "e", "t">>>>,
                    <<<<" ">>, <<"x">>>>}
    IN {es \in UNION {[1..n -> entries] : n \in 0..MaxRules} :
           \A i \in 1..Len(es), j \in 1..Len(es) : i # j => es[i][1] # es[j][1]}

CorrPaths ==
    {[kind |-> k, obj |-> <<>>] : k \in {"none", "missing", "other"}}
        \cup {[kind |-> "list", obj |-> r] : r \in RuleLists}
        \cup {[kind |-> "dict", obj |-> es] : es \in DictObjects}

InitCorr ==
    /\ IdleEngine
    /\ pc = "call"
    /\ arg \in [text : CorrTexts, path : CorrPaths]
    /\ res = NoDate

\* apply_corrections(arg.text, arg.path)
ApplyCorr ==
    /\ pc = "call"
    /\ res' = apply_corrections(arg.text, arg.path)
    /\ pc' = "returned"
    /\ UNCHANGED <<engineVars, arg>>

NextCorr == ApplyCorr

SpecCorr == InitCorr /\ [][NextCorr]_vars

\* previous dates given to the repair search: January and February 2025,
\* the end of 2024, and dates at both ends of the calendar
RepairPrevs ==
    {MakeDate(2025, 1, 1), MakeDate(2025, 1, 10), MakeDate(2025, 1, 12), MakeDate(2025, 2, 2),
     MakeDate(2024, 12, 27), 3, MAXORDINAL - 5, MAXORDINAL}

\* header tokens given to the repair search; "zzz" is a month token that
\* does not resolve, "07" a day written with a leading zero
RepairCandidates ==
    {Candidate(dw, mo, da, yr, <<1>>) :
        dw \in {DOW_NAMES[k] : k \in 1..7},
        mo \in {MONTHS[1], MONTHS[6], <<"z", "z", "z">>},
        da \in {<<"1">>, <<"7">>, <<"0", "7">>, <<"2", "7">>, <<"2", "8">>},
        yr \in {<<"2", "0", "2", "5">>, <<"2", "0", "2", "4">>, <<"9", "9", "9", "9">>, <<"0", "0", "0", "1">>}}

InitRepair ==
    /\ pages = <<>>
    /\ policy \in {[DefaultPolicy EXCEPT !.max_window_days = w] : w \in {ShortWindowDays, RepairCutoffDays, DefaultWindowDays}}
    /\ FreshLocals
    /\ call = 1
    /\ first_out = <<>>
    /\ pc = "call"
    /\ arg \in [c : RepairCandidates, prev : RepairPrevs]
    /\ res = NoDate

\* repair_with_context(arg.c, prev=arg.prev, policy=policy)
ApplyRepair ==
    /\ pc = "call"
    /\ res' = repair_with_context(arg.c, arg.prev, policy)
    /\ pc' = "returned"
    /\ UNCHANGED <<engineVars, arg>>

NextRepair == ApplyRepair

SpecRepair == InitRepair /\ [][NextRepair]_vars

(***************************************************************************)
(* assign.py: assign_dates on a page list and on an extension of it        *)
(***************************************************************************)

\* the page list leaves room for at least one more page
InitPrefix ==
    /\ pages \in UNION {[1..n -> PageTexts] : n \in 0..(MaxPages - 1)}
    /\ policy \in Policies
    /\ pc = "pass1"
    /\ FreshLocals
    /\ NoHistory

\* assign_dates is called again with the same policy on the same pages
\* followed by further pages: the locals are built anew, the output for the
\* shorter list is kept aside
ExtendCall ==
    /\ pc = "done"
    /\ call = 1
    /\ \E n \in 1..(MaxPages - Len(pages)) : \E ext \in [1..n -> PageTexts] : pages' = pages \o ext
    /\ first_out' = assigns
    /\ call' = 2
    /\ pc' = "pass1"
    /\ idx' = 1
    /\ assigns' = <<>>
    /\ prev_d' = NoDate
    /\ known' = <<>>
    /\ kpos' = 1
    /\ pass1' = <<>>
    /\ repairs' = <<>>
    /\ prevs' = <<>>
    /\ UNCHANGED <<policy, arg, res>>

NextPrefix == Next \/ ExtendCall

\* assign_dates on a prefix of a journal, then on the journal
SpecPrefix == InitPrefix /\ [][NextPrefix]_vars

(***************************************************************************)
(* assign.py: auto_detect_date_mode, then assign_dates, on the same pages  *)
(* and policy                                                              *)
(***************************************************************************)

\* policies for detection followed by assignment: every threshold up to the
\* default, both scan lengths, repair and inference on or off
InitDetect ==
    /\ pages \in PageSeqs
    /\ policy \in {[DefaultPolicy EXCEPT !.allow_repair = r, !.allow_infer_continuations = c,
                                          !.auto_min_hits = h, !.auto_scan_pages = n] :
                       r \in BOOLEAN, c \in BOOLEAN, h \in 0..DefaultMinHits, n \in {ShortScanPages, DefaultScanPages}}
    /\ pc = "detect"
    /\ FreshLocals
    /\ call = 1
    /\ first_out = <<>>
    /\ arg = <<>>
    /\ res = NoDate

\* auto_detect_date_mode(pages, policy); assign_dates(pages, policy) is
\* called next
DetectStep ==
    /\ pc = "detect"
    /\ res' = auto_detect_date_mode(pages, policy)
    /\ pc' = "pass1"
    /\ UNCHANGED <<pages, policy, idx, assigns, prev_d, known, kpos, pass1, repairs, prevs, call, first_out, arg>>

NextDetect == DetectStep \/ Next

SpecDetect == InitDetect /\ [][NextDetect]_vars

(***************************************************************************)
(* Properties                                                              *)
(***************************************************************************)
\* the date the page's own header normalizes to: NoDate without one
OwnDateOf ==
    [t \in AllTexts |->
        LET cand == parse_dow_month_day_year(FirstLines(t))
        IN IF cand.some THEN candidate_to_date(cand) ELSE NoDate]

OwnDate(text) == OwnDateOf[text]

HasDate(text) == OwnDate(text) # NoDate /\ OwnDate(text) # Raised

Returned == pc = "done"

Methods(as) == [i \in 1..Len(as) |-> as[i].method]

\* i0 < i1 are consecutive pages dated by the first pass
ConsecutiveKnown(i0, i1) ==
    /\ i0 < i1
    /\ pass1[i0].d # NoDate
    /\ pass1[i1].d # NoDate
    /\ \A j \in (i0 + 1)..(i1 - 1) : pass1[j].d = NoDate

GapDays(i0, i1) == pass1[i1].d - pass1[i0].d

\* a pair of consecutive first-pass dates with pages between them
GapPairs ==
    {pr \in (1..Len(pass1)) \X (1..Len(pass1)) : ConsecutiveKnown(pr[1], pr[2]) /\ pr[2] > pr[1] + 1}

\* C1: assign_dates returns one assignment per page, in page order: the
\* output is as long as the input, the assignment at index i is a first-pass
\* date (parsed or repaired) exactly when page i has a header that
\* normalizes, and a parsed date is page i's own date.
C1_OutputAligned ==
    Returned =>
        /\ Len(assigns) = Len(pages)
        /\ \A i \in 1..Len(pages) :
              /\ assigns[i].method \in {"parsed", "repaired"} <=> HasDate(pages[i])
              /\ assigns[i].method = "parsed" => assigns[i].d = OwnDate(pages[i])

C1_Witness ==
    /\ Returned
    /\ policy.allow_infer_continuations
    /\ Len(pages) >= 3
    /\ SubSeq(Methods(assigns), 1, 3) = <<"none", "parsed", "repaired">>

\* C2: in every assignment, during and after both passes, method is none
\* exactly when the date is null.
C2_NoneIffNoDate ==
    \A i \in 1..Len(assigns) : assigns[i].method = "none" <=> assigns[i].d = NoDate

C2_Witness ==
    /\ Returned
    /\ \E i \in 1..Len(assigns) : assigns[i].method = "repaired" /\ assigns[i].d # NoDate
    /\ \E i \in 1..Len(assigns) : assigns[i].method = "inferred" /\ assigns[i].d # NoDate

\* C3: every confidence lies in [0.0, 1.0] and a parsed assignment has
\* confidence exactly 1.0.
C3_ConfidenceRange ==
    \A i \in 1..Len(assigns) :
        /\ assigns[i].confidence >= 0
        /\ assigns[i].confidence <= ConfScale
        /\ assigns[i].method = "parsed" => assigns[i].confidence = ConfScale

\* a repaired date whose score is above 10.0, so that the 0.2 floor applies
C3_Witness ==
    /\ Returned
    /\ \E i \in 1..Len(assigns) : assigns[i].method = "parsed"
    /\ \E i \in 1..Len(assigns) :
          /\ assigns[i].method = "repaired"
          /\ assigns[i].confidence = 4
          /\ assigns[i].d # OwnDate(pages[i])

\* C4: assign_dates never raises, also for headers at the edge of the
\* calendar range.
C4_NeverRaises == pc # "raised"

\* C5 as stated: a page whose repair search was triggered and declined to
\* commit is assigned method none with a null date.
C5_DeclinedIsNone ==
    \A i \in 1..Len(repairs) :
        repairs[i] = "declined" => assigns[i].method = "none" /\ assigns[i].d = NoDate

\* C5 amended: a page whose header yields no date is assigned none by the
\* first pass; a page whose repair search was triggered and declined keeps
\* its own normalized date as (parsed, 1.0).
C5_DeclinedKeepsParsed ==
    \A i \in 1..Len(repairs) :
        /\ repairs[i] = "declined" => assigns[i] = ParsedAssignment(OwnDate(pages[i]))
        /\ ~HasDate(pages[i]) => (IF pc \in {"gaps", "done"} THEN pass1[i] ELSE assigns[i]) = NoneAssignment

C5_Witness ==
    /\ Returned
    /\ \E i \in 1..Len(repairs) : repairs[i] = "declined" /\ assigns[i].method = "parsed"
    /\ \E i \in 1..Len(repairs) : ~HasDate(pages[i]) /\ pass1[i].method = "none"

\* C6: with allow_infer_continuations, the pages between consecutive
\* first-pass dates d0 and d1 are all (d0, inferred, 0.3, "neighbor-gap")
\* when d1 - d0 is 1 day and all (d0 + 1, inferred, 0.3, "neighbor-gap")
\* when it is 2 days.
C6_GapFill ==
    (Returned /\ policy.allow_infer_continuations) =>
        \A pr \in GapPairs : \A j \in (pr[1] + 1)..(pr[2] - 1) :
            /\ GapDays(pr[1], pr[2]) = 1 =>
                  assigns[j] = [d |-> pass1[pr[1]].d, method |-> "inferred", confidence |-> 6, note |-> "neighbor-gap"]
            /\ GapDays(pr[1], pr[2]) = 2 =>
                  assigns[j] = [d |-> pass1[pr[1]].d + 1, method |-> "inferred", confidence |-> 6, note |-> "neighbor-gap"]

C6_Witness ==
    /\ Returned
    /\ policy.allow_infer_continuations
    /\ \E pr \in GapPairs : GapDays(pr[1], pr[2]) = 1 /\ assigns[pr[1] + 1].note = "neighbor-gap"

\* C7: the pages between consecutive first-pass dates whose difference is
\* not 1 or 2 days stay (none, null) in the output.
C7_OtherGapsStayNone ==
    Returned =>
        \A pr \in GapPairs : \A j \in (pr[1] + 1)..(pr[2] - 1) :
            GapDays(pr[1], pr[2]) \notin {1, 2} => assigns[j].method = "none" /\ assigns[j].d = NoDate

C7_Witness ==
    /\ Returned
    /\ policy.allow_infer_continuations
    /\ \E pr \in GapPairs : GapDays(pr[1], pr[2]) > 2 /\ assigns[pr[1] + 1].method = "none"

\* C8: with allow_infer_continuations, every page after the last first-pass
\* date is (that date, inferred, 0.2, "trailing").
C8_TrailingFill ==
    (Returned /\ policy.allow_infer_continuations) =>
        \A i \in 1..Len(pass1) :
            (pass1[i].d # NoDate /\ \A j \in (i + 1)..Len(pass1) : pass1[j].d = NoDate) =>
                \A j \in (i + 1)..Len(assigns) :
                    assigns[j] = [d |-> pass1[i].d, method |-> "inferred", confidence |-> 4, note |-> "trailing"]

C8_Witness ==
    /\ Returned
    /\ Len(pages) >= 3
    /\ pass1[Len(pages) - 2].d # NoDate
    /\ assigns[Len(pages) - 1].note = "trailing"
    /\ assigns[Len(pages)].note = "trailing"

\* C9: the second pass leaves every page the first pass dated as it was.
C9_Pass2KeepsDated ==
    pc \in {"gaps", "done"} =>
        \A i \in 1..Len(pass1) :
            pass1[i].method \in {"parsed", "repaired"} => assigns[i] = pass1[i]

C9_Witness ==
    /\ Returned
    /\ \E i \in 1..Len(assigns) : pass1[i].method = "none" /\ assigns[i].method = "inferred"
    /\ \E i \in 1..Len(assigns) : pass1[i].method = "parsed" /\ assigns[i] = pass1[i]
    /\ \E i \in 1..Len(assigns) : pass1[i].method = "repaired" /\ assigns[i] = pass1[i]

\* C10: with allow_infer_continuations false the output is the first-pass
\* result: nothing is inferred and a page without a normalizable header is
\* none whatever its neighbours are.
C10_NoInferenceWhenOff ==
    (Returned /\ ~policy.allow_infer_continuations) =>
        /\ assigns = pass1
        /\ \A i \in 1..Len(assigns) :
              /\ assigns[i].method # "inferred"
              /\ ~HasDate(pages[i]) => assigns[i] = NoneAssignment

C10_Witness ==
    /\ Returned
    /\ ~policy.allow_infer_continuations
    /\ \E pr \in GapPairs : GapDays(pr[1], pr[2]) = 1 /\ assigns[pr[1] + 1] = NoneAssignment

StatedWeekday(dow) == dow_to_wanted(dow)

\* offset k is preferred to offset j: ascending (|k|, k > 0)
PreferredOffset(k, j) == Abs(k) < Abs(j) \/ (Abs(k) = Abs(j) /\ k < 0 /\ j > 0)

\* the offsets in [-3, +3] without 0 that lead to a calendar date with weekday want
QualifyingOffsets(d, want) ==
    {k \in (-3..3) \ {0} : d + k >= 1 /\ d + k <= MAXORDINAL /\ Weekday(d + k) = want}

\* C12: the weekday reconciler returns the date unchanged when its weekday
\* is the stated one, and otherwise d + k for the qualifying offset k in
\* [-3, +3] that comes first by ascending (|k|, k > 0).
C12_ReconcilerRule ==
    (pc = "returned" /\ StatedWeekday(arg.dow) # -1) =>
        IF Weekday(arg.d) = StatedWeekday(arg.dow) THEN res = arg.d
        ELSE \A k \in QualifyingOffsets(arg.d, StatedWeekday(arg.dow)) :
                (\A j \in QualifyingOffsets(arg.d, StatedWeekday(arg.dow)) \ {k} : PreferredOffset(k, j))
                    => res = arg.d + k

\* the cleaned token: stripped, lower case, | read as l, letters only
CleanToken(tok) == KeepLetters(ReplaceBar(LowerTok(Strip(tok))))

\* C13: the month of a token is the month whose full name equals the
\* cleaned token, else the one month whose full name starts with the first
\* three letters of the cleaned token, else none.
C13_MonthReferenceRule ==
    pc = "returned" =>
        LET t == CleanToken(arg)
        IN IF \E m \in 1..12 : MONTHS[m] = t
           THEN res # 0 /\ MONTHS[res] = t
           ELSE IF Len(t) >= 3 /\ \E m \in 1..12 : StartsWith(MONTHS[m], SubSeq(t, 1, 3))
           THEN /\ res # 0
                /\ \A m \in 1..12 : StartsWith(MONTHS[m], SubSeq(t, 1, 3)) <=> m = res
           ELSE res = 0

C13_Witness == pc = "returned" /\ arg = <<"J", "u", "l", "z">> /\ res = 7

\* (y, m, d) is a date of the proleptic Gregorian calendar, years 1..9999
ValidGregorian(y, m, d) ==
    /\ y >= 1 /\ y <= 9999
    /\ m >= 1 /\ m <= 12
    /\ d >= 1
    /\ d <= (IF m = 2 THEN (IF (y % 4 = 0 /\ y % 100 # 0) \/ y % 400 = 0 THEN 29 ELSE 28)
             ELSE IF m \in {4, 6, 9, 11} THEN 30 ELSE 31)

\* the page has a header with numeric year and day and a resolved month
\* which together are not a calendar date
InvalidHeaderOf ==
    [t \in AllTexts |->
        LET cand == parse_dow_month_day_year(FirstLines(t))
        IN /\ cand.some
           /\ IntOfToken(cand.year_token).ok
           /\ IntOfToken(cand.day_token).ok
           /\ month_token_to_int(cand.month_token) # 0
           /\ ~ValidGregorian(IntOfToken(cand.year_token).val, month_token_to_int(cand.month_token),
                              IntOfToken(cand.day_token).val)]

InvalidHeader(text) == InvalidHeaderOf[text]

HeaderHits ==
    Cardinality({i \in 1..Min(Len(pages), policy.auto_scan_pages) : OwnDate(pages[i]) # NoDate})

\* C15: auto_detect_date_mode returns, and returns true exactly when the
\* number of pages among the first auto_scan_pages whose header parses and
\* normalizes to a date is at least auto_min_hits.
C15_AutoDetectIff ==
    pc = "returned" =>
        /\ res \in {"true", "false"}
        /\ res = "true" <=> HeaderHits >= policy.auto_min_hits

\* the weekday (0 for Monday) and the year the page's header states
StatedOf ==
    [t \in AllTexts |->
        LET cand == parse_dow_month_day_year(FirstLines(t))
        IN IF cand.some
           THEN [some |-> TRUE, weekday |-> dow_to_wanted(cand.dow), year |-> IntOfToken(cand.year_token).val]
           ELSE [some |-> FALSE, weekday |-> -1, year |-> 0]]

\* C16: a repaired assignment lies at most 7 days from the day after the
\* previous accepted date, falls on the weekday the header states and in
\* the year the header states.
C16_RepairedNearTarget ==
    \A i \in 1..Len(assigns) :
        assigns[i].method = "repaired" =>
            /\ prevs[i] # NoDate
            /\ StatedOf[pages[i]].some
            /\ Abs(assigns[i].d - (prevs[i] + 1)) <= 7
            /\ Weekday(assigns[i].d) = StatedOf[pages[i]].weekday
            /\ OrdToYMD(assigns[i].d).year = StatedOf[pages[i]].year

\* a repair exactly 7 days from the target is emitted
C16_Witness ==
    /\ Returned
    /\ \E i \in 1..Len(assigns) :
          /\ assigns[i].method = "repaired"
          /\ Abs(assigns[i].d - (prevs[i] + 1)) = 7
          /\ assigns[i].d # OwnDate(pages[i])

\* the rules of a JSON list that are pairs, in list order
PairRules(items) == SelectSeq(items, LAMBDA it : Len(it) = 2)

\* the text after the first n rules: rule n applied to the text after the
\* first n - 1 rules
RECURSIVE AfterRules(_, _, _)
AfterRules(rules, n, base) ==
    IF n = 0 THEN base
    ELSE re_sub(rules[n][1], rules[n][2], AfterRules(rules, n - 1, base), FALSE)

\* C17: with a JSON list the rules are applied in list order, each to the
\* output of the rule before it, starting from the text with the generic
\* fixes applied.
C17_ListRulesInOrder ==
    (pc = "returned" /\ arg.path.kind = "list") =>
        res = AfterRules(PairRules(arg.path.obj), Len(PairRules(arg.path.obj)), GenericFixes(arg.text))

\* rules [abc -> x, x -> y] turn "abc" into "y"
C17_Witness ==
    /\ pc = "returned"
    /\ arg.path.kind = "list"
    /\ arg.text = <<"a", "b", "c">>
    /\ arg.path.obj = <<<<<<"a", "b", "c">>, <<"x">>>>, <<<<"x">>, <<"y">>>>>>
    /\ res = <<"y">>

\* text holds word as a whole word, in any case
HasWholeWord(text, word) ==
    \E q \in 1..Len(text) :
        /\ q + Len(word) - 1 <= Len(text)
        /\ \A k \in 1..Len(word) : Lower(text[q + k - 1]) = word[k]
        /\ ~WordAt(text, q - 1)
        /\ ~WordAt(text, q + Len(word))

\* C18 as stated: with a corrections file that does not exist the returned
\* text equals the input text.
C18_MissingFileNoop ==
    (pc = "returned" /\ arg.path.kind = "missing") => res = arg.text

\* C18 amended: with a corrections file that does not exist the returned
\* text is the input with the two generic fixes applied, whole words tered
\* to tired and then liet to diet in any case, and equals the input when
\* it holds neither word.
C18_MissingFileBaselineOnly ==
    (pc = "returned" /\ arg.path.kind = "missing") =>
        /\ res = re_sub(<<"l", "i", "e", "t">>, <<"d", "i", "e", "t">>, re_sub(<<"t", "e", "r", "e", "d">>, <<"t", "i", "r", "e", "d">>, arg.text, TRUE), TRUE)
        /\ (~HasWholeWord(arg.text, <<"t", "e", "r", "e", "d">>) /\ ~HasWholeWord(arg.text, <<"l", "i", "e", "t">>)) => res = arg.text

C18_Witness ==
    /\ pc = "returned"
    /\ arg.path.kind = "missing"
    /\ arg.text = <<"T", "e", "r", "e", "d", " ", "l", "i", "e", "t">>
    /\ res = <<"t", "i", "r", "e", "d", " ", "d", "i", "e", "t">>

\* the assignment the first pass gave page i
Pass1Of(i) == IF pc \in {"gaps", "done"} THEN pass1[i] ELSE assigns[i]

\* C19: in the first pass the repair search runs for a page exactly when
\* allow_repair is set, a previous accepted date exists and the page's own
\* date is earlier than it or more than 3 days later; otherwise a page with
\* a date is assigned (d, parsed, 1.0); without allow_repair no assignment
\* is repaired.
C19_RepairTrigger ==
    /\ \A i \in 1..Len(repairs) :
          HasDate(pages[i]) =>
              /\ repairs[i] # "not-run" <=>
                    /\ policy.allow_repair
                    /\ prevs[i] # NoDate
                    /\ (OwnDate(pages[i]) - prevs[i] < 0 \/ OwnDate(pages[i]) - prevs[i] > 3)
              /\ repairs[i] = "not-run" => Pass1Of(i) = ParsedAssignment(OwnDate(pages[i]))
    /\ ~policy.allow_repair => \A i \in 1..Len(assigns) : assigns[i].method # "repaired"

\* one page 3 days after its predecessor is left alone, one 4 days after
\* or one a day before has the search run
C19_Witness ==
    /\ Returned
    /\ policy.allow_repair
    /\ \E i \in 1..Len(pages) :
          /\ HasDate(pages[i]) /\ prevs[i] # NoDate
          /\ OwnDate(pages[i]) - prevs[i] = 3
          /\ repairs[i] = "not-run"
    /\ \E i \in 1..Len(pages) :
          /\ HasDate(pages[i]) /\ prevs[i] # NoDate
          /\ (OwnDate(pages[i]) - prevs[i] = 4 \/ OwnDate(pages[i]) - prevs[i] = -1)
          /\ repairs[i] # "not-run"

\* the date of the last of the first k pages that the first pass accepted
\* (parsed or repaired), NoDate without one
RECURSIVE LastAccepted(_)
LastAccepted(k) ==
    IF k = 0 THEN NoDate
    ELSE IF Pass1Of(k).method \in {"parsed", "repaired"} THEN Pass1Of(k).d
    ELSE LastAccepted(k - 1)

\* C20: the prev date a page is checked against is the date of the most
\* recent earlier page the first pass gave parsed or repaired, none if
\* there is no such page; the date carried to the next page is the same
\* for the pages processed so far.
C20_PrevThreading ==
    /\ \A i \in 1..Len(prevs) : prevs[i] = LastAccepted(i - 1)
    /\ pc = "pass1" => prev_d = LastAccepted(Len(assigns))

\* a page without a date lies between an accepted page and the page
\* checked against it
C20_Witness ==
    /\ Returned
    /\ \E i \in 3..Len(pages) :
          /\ pass1[i - 1].method = "none"
          /\ OwnDate(pages[i - 1]) = NoDate
          /\ pass1[i - 2].method = "parsed"
          /\ prevs[i] = pass1[i - 2].d
          /\ HasDate(pages[i])

\* the day after the previous date
TargetOf(prev) == prev + 1

\* the offsets of the window whose date exists, lies in year y and falls on
\* weekday want
MatchingOffsets(prev, w, y, want) ==
    {o \in (-w)..w :
        /\ TargetOf(prev) + o >= 1
        /\ TargetOf(prev) + o <= MAXORDINAL
        /\ OrdToYMD(TargetOf(prev) + o).year = y
        /\ Weekday(TargetOf(prev) + o) = want}

\* the decimal string of day n ends with the decimal string of k
DayEndsWith(n, k) == n = k \/ (k < 10 /\ n % 10 = k)

\* twice the score of the date at offset o: |o|, + 3.0 for a month other
\* than the parsed one, + 0.5 or 2.0 for a day other than the OCR day
StatedScore2(prev, o, parsed_month, ocr_day) ==
    LET c == OrdToYMD(TargetOf(prev) + o)
    IN 2 * Abs(o)
       + (IF parsed_month # 0 /\ c.month # parsed_month THEN 6 ELSE 0)
       + (IF c.day = ocr_day THEN 0 ELSE IF DayEndsWith(c.day, ocr_day) THEN 1 ELSE 4)

\* what the header of the repair call states
ArgWant == dow_to_wanted(arg.c.dow)

ArgYear == IntOfToken(arg.c.year_token).val

ArgDay == IntOfToken(arg.c.day_token).val

ArgMonth == month_token_to_int(arg.c.month_token)

ArgMatching == MatchingOffsets(arg.prev, policy.max_window_days, ArgYear, ArgWant)

\* C21: a date returned by the repair search lies in the window around
\* prev + 1 day, matches the year token and the stated weekday, and no
\* matching window date has a smaller score.
C21_RepairMinScore ==
    (pc = "returned" /\ ~res.raised /\ res.some) =>
        /\ res.a.d - TargetOf(arg.prev) \in ArgMatching
        /\ \A o \in ArgMatching :
              StatedScore2(arg.prev, res.a.d - TargetOf(arg.prev), ArgMonth, ArgDay)
                  <= StatedScore2(arg.prev, o, ArgMonth, ArgDay)

\* prev 2025-01-10 and sunday / january / 27 / 2025 is repaired to 2025-01-12
C21_Witness ==
    /\ pc = "returned"
    /\ arg.prev = MakeDate(2025, 1, 10)
    /\ arg.c = Candidate(DOW_NAMES[7], MONTHS[1], <<"2", "7">>, <<"2", "0", "2", "5">>, <<1>>)
    /\ policy.max_window_days = DefaultWindowDays
    /\ res.some
    /\ res.a.d = MakeDate(2025, 1, 12)

\* the offset of the returned date from the target
ResOffset == res.a.d - TargetOf(arg.prev)

\* the matching offsets that share the score of the returned date
TiedOffsets ==
    {o \in ArgMatching :
        StatedScore2(arg.prev, o, ArgMonth, ArgDay) = StatedScore2(arg.prev, ResOffset, ArgMonth, ArgDay)}

\* C22 as stated: when window dates share the minimum score the one with
\* the smaller |offset| from target is returned.
C22_TieSmallerOffset ==
    (pc = "returned" /\ ~res.raised /\ res.some) =>
        \A o \in TiedOffsets : Abs(ResOffset) <= Abs(o)

\* C22 amended: when window dates share the minimum score the one found
\* first in ascending offset order, the earliest date, is returned.
C22_TieEarliestDate ==
    (pc = "returned" /\ ~res.raised /\ res.some) =>
        \A o \in TiedOffsets : ResOffset <= o

\* after 2025-02-02 the header tuesday / january / 28 / 2025 has 2025-01-28
\* (offset -6) and 2025-02-04 (offset +1) tied at score 6.0
C22_Witness ==
    /\ pc = "returned"
    /\ res.some
    /\ arg.prev = MakeDate(2025, 2, 2)
    /\ ResOffset = -6
    /\ 1 \in TiedOffsets
    /\ res.a.d = MakeDate(2025, 1, 28)

\* twice the largest score a window date can have
MaxScore2 == 2 * DefaultWindowDays + 6 + 4

\* max(0.2, 1.0 - score / 10.0) in twentieths, for twice the score
StatedConfidence(score2) == IF ConfScale - score2 < 4 THEN 4 ELSE ConfScale - score2

\* C23: a repaired assignment has confidence max(0.2, 1.0 - score / 10.0)
\* for the score of the date selected, so it lies in [0.2, 1.0]; the
\* confidence never rises with the score.
C23_RepairConfidence ==
    /\ (pc = "returned" /\ ~res.raised /\ res.some) =>
          /\ res.a.method = "repaired"
          /\ res.a.confidence = StatedConfidence(StatedScore2(arg.prev, ResOffset, ArgMonth, ArgDay))
          /\ res.a.confidence >= 4
          /\ res.a.confidence <= ConfScale
    /\ \A s \in 0..(MaxScore2 - 1) : RepairConfidence(s) >= RepairConfidence(s + 1)

\* one repair scored 4.5 with confidence 0.55
C23_Witness ==
    /\ pc = "returned"
    /\ res.some
    /\ StatedScore2(arg.prev, ResOffset, ArgMonth, ArgDay) = 9
    /\ res.a.confidence = 11

\* the candidate the engine obtains for a page text
EngineCandidateOf == [t \in AllTexts |-> parse_dow_month_day_year(FirstLines(t))]

\* the header of a page: the weekday line stitched to the line after it when
\* they are the first two non-blank lines, else the topmost of the first 10
\* non-blank lines that matches the header pattern
TopmostHeaderOf ==
    [t \in AllTexts |->
        LET nb   == SelectSeq(t, LAMBDA ln : ln.kind # "blank")
            top  == {k \in 1..Len(nb) : k <= 10 /\ DATE_LINE_RE(nb[k]) /\ \A j \in 1..(k - 1) : ~DATE_LINE_RE(nb[j])}
        IN IF Len(nb) >= 2 /\ DOW_ONLY_RE(nb[1]) /\ StitchedMatch(nb[1], nb[2])
           THEN [some |-> TRUE, dow |-> nb[1].dow, month |-> nb[2].month, day |-> nb[2].day, year |-> nb[2].year]
           ELSE IF top # {}
           THEN LET k == CHOOSE j \in top : TRUE
                IN [some |-> TRUE, dow |-> nb[k].dow, month |-> nb[k].month, day |-> nb[k].day, year |-> nb[k].year]
           ELSE [some |-> FALSE, dow |-> <<>>, month |-> <<>>, day |-> <<>>, year |-> <<>>]]

\* C24: a page with a header among its first 10 non-blank lines yields the
\* candidate of the topmost such line, whatever blank lines precede it, and
\* the first pass dates the page.
C24_HeaderWithinTenNonBlank ==
    \A i \in 1..Len(assigns) :
        TopmostHeaderOf[pages[i]].some =>
            /\ EngineCandidateOf[pages[i]].some
            /\ EngineCandidateOf[pages[i]].dow = TopmostHeaderOf[pages[i]].dow
            /\ EngineCandidateOf[pages[i]].month_token = TopmostHeaderOf[pages[i]].month
            /\ EngineCandidateOf[pages[i]].day_token = TopmostHeaderOf[pages[i]].day
            /\ EngineCandidateOf[pages[i]].year_token = TopmostHeaderOf[pages[i]].year
            /\ Pass1Of(i).method # "none"

\* the first-pass date of the nearest page before page i that the first
\* pass dated, NoDate without one
RECURSIVE AnchorBefore(_)
AnchorBefore(i) ==
    IF i <= 1 THEN NoDate
    ELSE IF pass1[i - 1].d # NoDate THEN pass1[i - 1].d
    ELSE AnchorBefore(i - 1)

\* C25: an inferred assignment has the date d0 or d0 + 1 day of the nearest
\* preceding page dated by the first pass, which is parsed or repaired; a
\* page before the first such page stays none.
C25_InferredFromPass1Anchor ==
    Returned =>
        \A i \in 1..Len(assigns) :
            /\ assigns[i].method = "inferred" =>
                  /\ AnchorBefore(i) # NoDate
                  /\ assigns[i].d \in {AnchorBefore(i), AnchorBefore(i) + 1}
                  /\ pass1[i].method = "none"
            /\ pass1[i].d # NoDate => pass1[i].method \in {"parsed", "repaired"}
            /\ (\A j \in 1..i : pass1[j].d = NoDate) => assigns[i] = NoneAssignment

\* an undated first page stays none while the page after the dated one is inferred
C25_Witness ==
    /\ Returned
    /\ Len(assigns) = 3
    /\ assigns[1] = NoneAssignment
    /\ pass1[2].method = "parsed"
    /\ assigns[3].method = "inferred"
    /\ assigns[3].d = pass1[2].d

\* the offsets in [-3, +3], 0 included, whose date is a calendar date with
\* weekday want
WeekdayOffsets(d, want) ==
    {k \in (-3)..3 : d + k >= 1 /\ d + k <= MAXORDINAL /\ Weekday(d + k) = want}

\* C26: for every calendar date and weekday name the reconciled date has
\* the stated weekday and lies at most 3 days from the date, exactly one
\* offset in [-3, +3] qualifying.
C26_ReconciledHasWeekday ==
    (pc = "returned" /\ StatedWeekday(arg.dow) # -1) =>
        /\ res # Raised
        /\ Weekday(res) = StatedWeekday(arg.dow)
        /\ Abs(res - arg.d) <= 3
        /\ Cardinality(WeekdayOffsets(arg.d, StatedWeekday(arg.dow))) = 1

\* C27: with max_window_days >= 7 the repair search returns an assignment
\* exactly when some date within 7 days of prev + 1 day has the stated
\* weekday and the year of the year token.
C27_RepairComplete ==
    (pc = "returned" /\ policy.max_window_days >= 7) =>
        /\ ~res.raised
        /\ res.some <=> MatchingOffsets(arg.prev, 7, ArgYear, ArgWant) # {}

\* C28: a page is reported repaired only with a date other than the date
\* its own header normalizes to; a search that selects that very date
\* leaves the page (parsed, 1.0).
C28_RepairedDiffers ==
    \A i \in 1..Len(assigns) :
        /\ assigns[i].method = "repaired" => assigns[i].d # OwnDate(pages[i])
        /\ (HasDate(pages[i]) /\ assigns[i].d = OwnDate(pages[i])) =>
              assigns[i] = ParsedAssignment(OwnDate(pages[i]))


\* C29: with continuation inference off, the call on the longer page list
\* returns, and its first assignments are exactly the assignments returned
\* for the shorter list
C29_PrefixStable ==
    (call = 2 /\ ~policy.allow_infer_continuations) =>
        /\ pc # "raised"
        /\ pc = "done" =>
              /\ Len(assigns) >= Len(first_out)
              /\ SubSeq(assigns, 1, Len(first_out)) = first_out


\* the pages among the first auto_scan_pages with a non-null date in as
DatedInScan(as) ==
    Cardinality({i \in 1..Min(Len(as), policy.auto_scan_pages) : as[i].d # NoDate})

\* C30: when auto_detect_date_mode returned true for a threshold of at
\* least 1, assign_dates returns; its first pass dates exactly the pages
\* whose header parses and normalizes, and its output dates at least
\* auto_min_hits of the first auto_scan_pages pages
C30_DetectConsistent ==
    (pc # "detect" /\ res = "true" /\ policy.auto_min_hits >= 1) =>
        /\ pc # "raised"
        /\ pc \in {"gaps", "done"} =>
              \A i \in 1..Len(pages) : pass1[i].d # NoDate <=> HasDate(pages[i])
        /\ pc = "done" => DatedInScan(assigns) >= policy.auto_min_hits

====
